---- MODULE Spec2Model ----
(***************************************************************************)
(* Model of src/src/hex_grid.rs: the hexagonal terrain mesh generator.     *)
(*                                                                         *)
(* Positions live on the exact lattice of hexagon centres and corners:     *)
(* a world X is counted in units of INNER_RADIUS, a world Z in units of    *)
(* OUTER_RADIUS / 2, and Y (the height) is passed through unchanged.       *)
(* Offset positions (the input of to_hex_pos) are counted in tiles.        *)
(* Buffer indices are 0-based in the program; At(s, i) reads entry i.      *)
(***************************************************************************)
EXTENDS Integers, Sequences, FiniteSets, TLC

\* ---------------------------------------------------------------- bounds
MaxChunkSize == 4
MaxMapSize == 2
MaxSlope == 1
HeightMod == 3

\* ------------------------------------------------------------- constants
TILE_WIDTH == 7

VARIABLES
    CHUNK_SIZE,   \* const CHUNK_SIZE, fixed in Init
    MAP_SIZE,     \* const MAP_SIZE, fixed in Init
    noise,        \* the seeded noise generator (a deterministic height field)
    pc,           \* position of the single thread of control
    c_x, c_z,     \* loop variables x, z of create_hex_grid = arguments of create_chunk
    pos,          \* create_hex_grid: let pos (chunk origin)
    x, z,         \* loop variables inside create_chunk / add_chunk_sides
    height, off_pos, grid_pos,   \* locals of create_chunk / add_chunk_sides
    verts, uvs, normals, indices, \* the four buffers of create_chunk
    spawned       \* the entities handed to commands.spawn, in order

vars == <<CHUNK_SIZE, MAP_SIZE, noise, pc, c_x, c_z, pos, x, z,
          height, off_pos, grid_pos, verts, uvs, normals, indices, spawned>>

\* --------------------------------------------------------------- vectors
Vec3(a, b, c) == [x |-> a, y |-> b, z |-> c]

Vec2(a, b) == [x |-> a, y |-> b]

VAdd(p, q) == Vec3(p.x + q.x, p.y + q.y, p.z + q.z)

VScale(p, k) == Vec3(p.x * k, p.y * k, p.z * k)

xz(p) == Vec2(p.x, p.z)

Vec3_Y == Vec3(0, 1, 0)

At(s, i) == s[i + 1]

\* HEX_CORNERS in units (INNER_RADIUS, -, OUTER_RADIUS / 2)
HEX_CORNERS ==
    << Vec3(0, 0, 2), Vec3(1, 0, 1), Vec3(1, 0, -1),
       Vec3(0, 0, -2), Vec3(-1, 0, -1), Vec3(-1, 0, 1) >>

\* ------------------------------------------------------- pure functions
\* to_hex_pos without the floor term (a mutant of to_hex_pos)
to_hex_pos_noFloor(p) ==
    Vec3(2 * p.x + p.z, p.y, 3 * p.z)

\* x = (pos.x + pos.z * 0.5 - floor(pos.z / 2)) * (INNER_RADIUS * 2)
\* z = pos.z * OUTER_RADIUS * 1.5
to_hex_pos(p) ==
    Vec3(2 * p.x + p.z - 2 * (p.z \div 2), p.y, 3 * p.z)

\* noise.get at (x / NOISE_SCALE, y / NOISE_SCALE): the noise generator is a
\* library; it is a deterministic function of the two coordinates, drawn
\* here from the family (a*x + b*y) mod HeightMod.
sample_height(sx, sy, n) == (n.a * sx + n.b * sy) % HeightMod

create_quad(v1, v2, v3, v4, ind) ==
    ind \o << v1, v3, v2, v1, v4, v3 >>

Bufs(v, u, n, i) == [verts |-> v, uvs |-> u, normals |-> n, indices |-> i]

\* the body of the loop `for i in 0..6` of create_tile
RECURSIVE TileLoop(_, _, _, _)
TileLoop(i, p, idx, b) ==
    IF i = 6 THEN b
    ELSE TileLoop(i + 1, p, idx,
            Bufs(Append(b.verts, VAdd(p, HEX_CORNERS[i + 1])),
                 Append(b.uvs, xz(VAdd(p, HEX_CORNERS[i + 1]))),
                 Append(b.normals, Vec3_Y),
                 b.indices \o << idx, idx + 1 + i, idx + 1 + ((i + 1) % 6) >>))

\* create_tile whose fan does not wrap around (a mutant of create_tile)
RECURSIVE TileLoop_noWrap(_, _, _, _)
TileLoop_noWrap(i, p, idx, b) ==
    IF i = 6 THEN b
    ELSE TileLoop_noWrap(i + 1, p, idx,
            Bufs(Append(b.verts, VAdd(p, HEX_CORNERS[i + 1])),
                 Append(b.uvs, xz(VAdd(p, HEX_CORNERS[i + 1]))),
                 Append(b.normals, Vec3_Y),
                 b.indices \o << idx, idx + 1 + i, idx + 1 + (i + 1) >>))

create_tile_noWrap(p, b) ==
    TileLoop_noWrap(0, p, Len(b.verts),
        Bufs(Append(b.verts, p), Append(b.uvs, xz(p)),
             Append(b.normals, Vec3_Y), b.indices))

create_tile(p, b) ==
    TileLoop(0, p, Len(b.verts),
        Bufs(Append(b.verts, p), Append(b.uvs, xz(p)),
             Append(b.normals, Vec3_Y), b.indices))

ROW_WIDTH == CHUNK_SIZE * TILE_WIDTH

\* a mutant of TileBase: the row stride forgotten
TileBase_noStride(tx, tz) == (tx * 7) + (tz * 7)

\* let idx = ((x * 7) + (z * CHUNK_SIZE * 7)) as u32
TileBase(tx, tz) == (tx * 7) + (tz * CHUNK_SIZE * 7)

\* add_tile_sides without its third branch (a mutant of add_tile_sides)
add_tile_sides_noWest(tx, tz, idx, ind) ==
    LET c_tile == idx + 1
        i1 == IF tx < CHUNK_SIZE - 1
              THEN create_quad(c_tile + 1, c_tile + 2,
                               c_tile + TILE_WIDTH + 4, c_tile + TILE_WIDTH + 5, ind)
              ELSE ind
        i2 == IF tz < CHUNK_SIZE - 1
              THEN IF tz % 2 = 0
                   THEN create_quad(c_tile, c_tile + 1,
                                    c_tile + ROW_WIDTH + 3, c_tile + ROW_WIDTH + 4, i1)
                   ELSE IF tx < CHUNK_SIZE - 1
                        THEN create_quad(c_tile, c_tile + 1,
                                         c_tile + ROW_WIDTH + TILE_WIDTH + 3,
                                         c_tile + ROW_WIDTH + TILE_WIDTH + 4, i1)
                        ELSE i1
              ELSE i1
    IN  IF tz % 2 = 1 /\ tz < CHUNK_SIZE - 1
        THEN create_quad(c_tile + 5, c_tile,
                         c_tile + ROW_WIDTH + 2, c_tile + ROW_WIDTH + 3, i2)
        ELSE i2

add_tile_sides(tx, tz, idx, ind) ==
    LET c_tile == idx + 1
        i1 == IF tx < CHUNK_SIZE - 1
              THEN create_quad(c_tile + 1, c_tile + 2,
                               c_tile + TILE_WIDTH + 4, c_tile + TILE_WIDTH + 5, ind)
              ELSE ind
        i2 == IF tz < CHUNK_SIZE - 1
              THEN IF tz % 2 = 0
                   THEN create_quad(c_tile, c_tile + 1,
                                    c_tile + ROW_WIDTH + 3, c_tile + ROW_WIDTH + 4, i1)
                   ELSE IF tx < CHUNK_SIZE - 1
                        THEN create_quad(c_tile, c_tile + 1,
                                         c_tile + ROW_WIDTH + TILE_WIDTH + 3,
                                         c_tile + ROW_WIDTH + TILE_WIDTH + 4, i1)
                        ELSE i1
              ELSE i1
        i3 == IF tx > 0 /\ tz % 2 = 0
              THEN create_quad(c_tile + 5, c_tile,
                               c_tile + ROW_WIDTH - TILE_WIDTH + 2,
                               c_tile + ROW_WIDTH - TILE_WIDTH + 3, i2)
              ELSE i2
    IN  IF tz % 2 = 1 /\ tz < CHUNK_SIZE - 1
        THEN create_quad(c_tile + 5, c_tile,
                         c_tile + ROW_WIDTH + 2, c_tile + ROW_WIDTH + 3, i3)
        ELSE i3

\* a mutant of TopEdge: off by one
TopEdge_offByOne(cx) == cx <= MAP_SIZE - 1

\* if c_x < MAP_SIZE - 1
TopEdge(cx) == cx < MAP_SIZE - 1

\* if c_z < CHUNK_SIZE * (MAP_SIZE - 1)
RightEdge(cz) == cz < CHUNK_SIZE * (MAP_SIZE - 1)

\* a mutant of ChunkOrigin: the scale by CHUNK_SIZE forgotten
ChunkOrigin_noScale(cx, cz) == to_hex_pos(Vec3(cx, 0, cz))

\* to_hex_pos(Vec3::new(x as f32, 0., z as f32) * CHUNK_SIZE as f32)
ChunkOrigin(cx, cz) == to_hex_pos(VScale(Vec3(cx, 0, cz), CHUNK_SIZE))

\* one iteration of `for z in 0..CHUNK_SIZE` of the top side of
\* add_chunk_sides; returns the buffers and the final values of the locals
TopRow(tz, b) ==
    LET tx == CHUNK_SIZE - 1
        c_tile == ((tx * 7) + (tz * 7 * CHUNK_SIZE)) + 1
        h1 == sample_height(tx + 1 + c_x * CHUNK_SIZE, tz + c_z * CHUNK_SIZE, noise)
        o1 == Vec3(tx, h1, tz)
        g1 == to_hex_pos(o1)
        idx == Len(b.verts)
        b1 == Bufs(b.verts \o << VAdd(g1, HEX_CORNERS[3]), VAdd(g1, HEX_CORNERS[2]) >>,
                   b.uvs \o << xz(VAdd(g1, HEX_CORNERS[3])), xz(VAdd(g1, HEX_CORNERS[2])) >>,
                   b.normals \o << Vec3_Y, Vec3_Y >>,
                   create_quad(c_tile + 1, c_tile + 2, idx, idx + 1, b.indices))
        h2 == sample_height(tx + 1 + c_x * CHUNK_SIZE, tz + 1 + c_z * CHUNK_SIZE, noise)
        o2 == Vec3(tx, h2, tz)
        g2 == to_hex_pos(o2)
    IN  IF tz % 2 = 1 /\ tz > 0
        THEN [bufs |-> Bufs(Append(b1.verts, VAdd(g2, HEX_CORNERS[4])),
                            Append(b1.uvs, xz(VAdd(g2, HEX_CORNERS[4]))),
                            Append(b1.normals, Vec3_Y),
                            create_quad(c_tile + 2, c_tile + 3, idx + 1, idx + 2, b1.indices)),
              height |-> h2, off_pos |-> o2, grid_pos |-> g2]
        ELSE [bufs |-> b1, height |-> h1, off_pos |-> o1, grid_pos |-> g1]

\* ------------------------------------------------------------------ Init
Init ==
    /\ CHUNK_SIZE \in 1..MaxChunkSize
    /\ MAP_SIZE \in 1..MaxMapSize
    /\ noise \in [a : 0..MaxSlope, b : 0..MaxSlope]
    /\ pc = "grid"
    /\ c_x = 0 /\ c_z = 0
    /\ pos = Vec3(0, 0, 0)
    /\ x = 0 /\ z = 0
    /\ height = 0
    /\ off_pos = Vec3(0, 0, 0)
    /\ grid_pos = Vec3(0, 0, 0)
    /\ verts = << >> /\ uvs = << >> /\ normals = << >> /\ indices = << >>
    /\ spawned = << >>

\* --------------------------------------------------------------- actions
\* create_hex_grid, loop body up to the call of create_chunk, and the
\* allocation of the four empty buffers by create_chunk
EnterChunk ==
    /\ pc = "grid"
    /\ pos' = ChunkOrigin(c_x, c_z)
    /\ verts' = << >> /\ uvs' = << >> /\ normals' = << >> /\ indices' = << >>
    /\ x' = 0 /\ z' = 0
    /\ pc' = "caps"
    /\ UNCHANGED <<CHUNK_SIZE, MAP_SIZE, noise, c_x, c_z, height, off_pos,
                   grid_pos, spawned>>

\* create_chunk, first pass: one iteration of the inner loop
CapStep ==
    /\ pc = "caps"
    /\ LET h == sample_height(x + c_x * CHUNK_SIZE, z + c_z * CHUNK_SIZE, noise)
           o == Vec3(x, h, z)
           g == to_hex_pos(o)
           b == create_tile(g, Bufs(verts, uvs, normals, indices))
       IN  /\ height' = h
           /\ off_pos' = o
           /\ grid_pos' = g
           /\ verts' = b.verts /\ uvs' = b.uvs
           /\ normals' = b.normals /\ indices' = b.indices
    /\ IF x + 1 < CHUNK_SIZE
       THEN x' = x + 1 /\ z' = z /\ pc' = pc
       ELSE IF z + 1 < CHUNK_SIZE
            THEN x' = 0 /\ z' = z + 1 /\ pc' = pc
            ELSE x' = 0 /\ z' = 0 /\ pc' = "sides"
    /\ UNCHANGED <<CHUNK_SIZE, MAP_SIZE, noise, c_x, c_z, pos, spawned>>

\* create_chunk, second pass: one iteration of the inner loop
SideStep ==
    /\ pc = "sides"
    /\ indices' = add_tile_sides(x, z, TileBase(x, z), indices)
    /\ IF x + 1 < CHUNK_SIZE
       THEN x' = x + 1 /\ z' = z /\ pc' = pc
       ELSE IF z + 1 < CHUNK_SIZE
            THEN x' = 0 /\ z' = z + 1 /\ pc' = pc
            ELSE x' = CHUNK_SIZE - 1 /\ z' = 0 /\ pc' = "seam_top"
    /\ UNCHANGED <<CHUNK_SIZE, MAP_SIZE, noise, c_x, c_z, pos, height, off_pos,
                   grid_pos, verts, uvs, normals, spawned>>

\* add_chunk_sides, top side: one iteration of `for z in 0..CHUNK_SIZE`
SeamTopStep ==
    /\ pc = "seam_top"
    /\ TopEdge(c_x)
    /\ z < CHUNK_SIZE
    /\ LET r == TopRow(z, Bufs(verts, uvs, normals, indices))
       IN  /\ height' = r.height
           /\ off_pos' = r.off_pos
           /\ grid_pos' = r.grid_pos
           /\ verts' = r.bufs.verts /\ uvs' = r.bufs.uvs
           /\ normals' = r.bufs.normals /\ indices' = r.bufs.indices
    /\ z' = z + 1
    /\ UNCHANGED <<CHUNK_SIZE, MAP_SIZE, noise, pc, c_x, c_z, pos, x, spawned>>

\* add_chunk_sides: the top side is skipped or its loop has ended
SeamTopExit ==
    /\ pc = "seam_top"
    /\ ~ (TopEdge(c_x) /\ z < CHUNK_SIZE)
    /\ pc' = "seam_right"
    /\ x' = 0
    /\ z' = c_z + CHUNK_SIZE
    /\ UNCHANGED <<CHUNK_SIZE, MAP_SIZE, noise, c_x, c_z, pos, height, off_pos,
                   grid_pos, verts, uvs, normals, indices, spawned>>

\* add_chunk_sides, right side: one iteration of `for x in 0..CHUNK_SIZE`
SeamRightStep ==
    /\ pc = "seam_right"
    /\ RightEdge(c_z)
    /\ x < CHUNK_SIZE
    /\ LET h == sample_height(x + c_x, z + c_z, noise)
           o == Vec3(x, h, z)
       IN  /\ height' = h
           /\ off_pos' = o
           /\ grid_pos' = to_hex_pos(o)
    /\ x' = x + 1
    /\ UNCHANGED <<CHUNK_SIZE, MAP_SIZE, noise, pc, c_x, c_z, pos, z,
                   verts, uvs, normals, indices, spawned>>

\* add_chunk_sides returns; create_chunk builds the Mesh from the buffers
SeamRightExit ==
    /\ pc = "seam_right"
    /\ ~ (RightEdge(c_z) /\ x < CHUNK_SIZE)
    /\ pc' = "spawn"
    /\ UNCHANGED <<CHUNK_SIZE, MAP_SIZE, noise, c_x, c_z, pos, x, z, height,
                   off_pos, grid_pos, verts, uvs, normals, indices, spawned>>

\* create_hex_grid: commands.spawn of the mesh at pos, then the loop advances
Spawn ==
    /\ pc = "spawn"
    /\ spawned' = Append(spawned,
                    [translation |-> pos,
                     mesh |-> Bufs(verts, uvs, normals, indices)])
    /\ IF c_x + 1 < MAP_SIZE
       THEN c_x' = c_x + 1 /\ c_z' = c_z /\ pc' = "grid"
       ELSE IF c_z + 1 < MAP_SIZE
            THEN c_x' = 0 /\ c_z' = c_z + 1 /\ pc' = "grid"
            ELSE c_x' = c_x /\ c_z' = c_z /\ pc' = "done"
    /\ UNCHANGED <<CHUNK_SIZE, MAP_SIZE, noise, pos, x, z, height, off_pos,
                   grid_pos, verts, uvs, normals, indices>>

Next ==
    \/ EnterChunk
    \/ CapStep
    \/ SideStep
    \/ SeamTopStep
    \/ SeamTopExit
    \/ SeamRightStep
    \/ SeamRightExit
    \/ Spawn

Spec == Init /\ [][Next]_vars

\* ------------------------------------------------- vocabulary of the claims
Tiles == (0..(CHUNK_SIZE - 1)) \X (0..(CHUNK_SIZE - 1))

CapVerts == 7 * CHUNK_SIZE * CHUNK_SIZE

\* adjacency of two tiles of an offset-row hex grid (odd rows shifted right)
HexAdjacent(x1, z1, x2, z2) ==
    \/ z1 = z2 /\ (x2 = x1 + 1 \/ x2 = x1 - 1)
    \/ /\ (z2 = z1 + 1 \/ z2 = z1 - 1)
       /\ x2 - x1 \in (IF z1 % 2 = 0 THEN {-1, 0} ELSE {0, 1})

\* index v addresses one of the six corners of tile (tx, tz)
IsCornerOf(v, tx, tz) ==
    /\ v >= 7 * (tx + tz * CHUNK_SIZE) + 1
    /\ v <= 7 * (tx + tz * CHUNK_SIZE) + 6

\* the index entries appended by the current step
NewIndices == SubSeq(indices', Len(indices) + 1, Len(indices'))

\* the k-th quad (k from 0) of a run of quads laid out by create_quad
QuadOf(s, k) ==
    [v1 |-> s[6 * k + 1], v3 |-> s[6 * k + 2], v2 |-> s[6 * k + 3],
     v4 |-> s[6 * k + 5]]

NumQuads(s) == Len(s) \div 6

SameXZ(p, q) == p.x = q.x /\ p.z = q.z

BuffersUnchanged == UNCHANGED <<verts, uvs, normals, indices>>

IsPrefix(s, t) == Len(s) <= Len(t) /\ SubSeq(t, 1, Len(s)) = s

\* ----------------------------------------------------------------- C1
\* C1: the buffers handed to the mesh have equally long verts, uvs and
\* normals, and every entry of the index buffer is below len(verts).
C1_BuffersConsistent ==
    pc = "spawn" =>
        /\ Len(verts) = Len(uvs)
        /\ Len(uvs) = Len(normals)
        /\ \A k \in 1..Len(indices) : indices[k] < Len(verts)

\* ----------------------------------------------------------------- C2
\* C2: after the cap pass, the closed-form base of tile (x, z) is where
\* create_tile placed it: centre at base, centre + HEX_CORNERS[i] at
\* base + 1 + i, and distinct tiles occupy disjoint 7-entry ranges.
C2_TileAddressing ==
    pc \in {"sides", "seam_top", "seam_right", "spawn"} =>
        /\ \A t \in Tiles :
            LET base == TileBase(t[1], t[2])
                centre == Vec3(2 * t[1] + (t[2] % 2),
                               sample_height(t[1] + c_x * CHUNK_SIZE,
                                             t[2] + c_z * CHUNK_SIZE, noise),
                               3 * t[2])
            IN  /\ base + 7 <= Len(verts)
                /\ At(verts, base) = centre
                /\ \A i \in 0..5 :
                      At(verts, base + 1 + i) = VAdd(centre, HEX_CORNERS[i + 1])
        /\ \A t1 \in Tiles : \A t2 \in Tiles :
              t1 # t2 =>
                 \/ TileBase(t1[1], t1[2]) + 7 <= TileBase(t2[1], t2[2])
                 \/ TileBase(t2[1], t2[2]) + 7 <= TileBase(t1[1], t1[2])

C2_Witness ==
    /\ pc = "sides" /\ x >= 1 /\ z >= 1
    /\ noise.a = 1 /\ noise.b = 1 /\ c_x = 1

\* ----------------------------------------------------------------- C3
\* C3: every quad add_tile_sides emits for tile (x, z) joins two corners of
\* (x, z) to two corners of one hex-adjacent tile inside the chunk, and
\* references no index at or beyond 7 * CHUNK_SIZE * CHUNK_SIZE.
C3_IntraChunkQuads ==
    [][pc = "sides" =>
        \A k \in 0..(NumQuads(NewIndices) - 1) :
            LET q == QuadOf(NewIndices, k)
            IN  /\ IsCornerOf(q.v1, x, z)
                /\ IsCornerOf(q.v2, x, z)
                /\ \E t \in Tiles :
                      /\ HexAdjacent(x, z, t[1], t[2])
                      /\ IsCornerOf(q.v3, t[1], t[2])
                      /\ IsCornerOf(q.v4, t[1], t[2])
                /\ \A v \in {q.v1, q.v2, q.v3, q.v4} : v < CapVerts]_vars

\* ----------------------------------------------------------------- C4
\* C4: create_tile appends exactly 7 verts, 7 uvs, 7 normals and the 18
\* indices of the fan (base, base+1+i, base+1+((i+1) mod 6)), i = 0..5,
\* all inside [base, base+7), and leaves the earlier entries unchanged.
C4_CreateTileAppends ==
    [][pc = "caps" =>
        LET base == Len(verts)
            n == Len(indices)
        IN  /\ Len(verts') = base + 7
            /\ Len(uvs') = Len(uvs) + 7
            /\ Len(normals') = Len(normals) + 7
            /\ Len(indices') = n + 18
            /\ \A i \in 0..5 :
                  /\ indices'[n + 3 * i + 1] = base
                  /\ indices'[n + 3 * i + 2] = base + 1 + i
                  /\ indices'[n + 3 * i + 3] = base + 1 + ((i + 1) % 6)
            /\ \A k \in (n + 1)..(n + 18) :
                  indices'[k] >= base /\ indices'[k] < base + 7
            /\ IsPrefix(verts, verts')
            /\ IsPrefix(uvs, uvs')
            /\ IsPrefix(normals, normals')
            /\ IsPrefix(indices, indices')]_vars

C4_Witness == pc = "caps" /\ Len(verts) >= 14 /\ Len(indices) >= 36

\* ----------------------------------------------------------------- C5
\* number of unordered pairs of hex-adjacent tiles inside the chunk
AdjacentPairs ==
    Cardinality({ p \in Tiles \X Tiles :
        /\ \/ p[1][2] < p[2][2]
           \/ p[1][2] = p[2][2] /\ p[1][1] < p[2][1]
        /\ HexAdjacent(p[1][1], p[1][2], p[2][1], p[2][2]) })

\* quads of the chunk seam: one per row and one more per odd row, on chunks
\* that are not in the last column of the map
SeamQuads ==
    IF c_x < MAP_SIZE - 1 THEN CHUNK_SIZE + (CHUNK_SIZE \div 2) ELSE 0

\* quads add_tile_sides emits from the last row toward row CHUNK_SIZE when
\* that last row is even (see C3)
OverhangQuads ==
    IF CHUNK_SIZE % 2 = 1 THEN CHUNK_SIZE - 1 ELSE 0

Triangles == Len(indices) \div 3

C6_GridAssembly ==
    /\ Len(spawned) <= MAP_SIZE * MAP_SIZE
    /\ (pc = "done" <=> Len(spawned) = MAP_SIZE * MAP_SIZE)
    /\ (pc # "done" =>
           c_x = Len(spawned) % MAP_SIZE /\ c_z = Len(spawned) \div MAP_SIZE)
    /\ \A k \in 1..Len(spawned) :
          LET cx == (k - 1) % MAP_SIZE
              cz == (k - 1) \div MAP_SIZE
              m == spawned[k].mesh
          IN  /\ spawned[k].translation =
                     to_hex_pos(Vec3(cx * CHUNK_SIZE, 0, cz * CHUNK_SIZE))
              /\ Len(m.verts) >= CapVerts
              /\ \A t \in Tiles :
                    At(m.verts, 7 * (t[1] + t[2] * CHUNK_SIZE)).y =
                        sample_height(t[1] + cx * CHUNK_SIZE,
                                      t[2] + cz * CHUNK_SIZE, noise)

C6_Witness ==
    /\ pc = "done" /\ MAP_SIZE = 2 /\ CHUNK_SIZE = 3 /\ Len(spawned) = 4
    /\ noise.a = 1 /\ noise.b = 1
    /\ spawned[4].translation = Vec3(7, 0, 9)

\* ----------------------------------------------------------------- C7
\* the world position of offset position o, in lattice units
IsHexPosOf(g, o) ==
    /\ g.x = 2 * o.x + (o.z % 2)
    /\ g.y = o.y
    /\ g.z = 3 * o.z

\* C7: to_hex_pos maps (x, y, z) to ((2x + z mod 2) * INNER_RADIUS, y,
\* 1.5 * z * OUTER_RADIUS); (0,0,0), (1,0,0), (0,0,1) map to (0,0,0),
\* (2*INNER_RADIUS, 0, 0), (INNER_RADIUS, 0, 1.5*OUTER_RADIUS).
C7_ToHexPos ==
    /\ IsHexPosOf(grid_pos, off_pos)
    /\ (pc # "grid" =>
           IsHexPosOf(pos, Vec3(c_x * CHUNK_SIZE, 0, c_z * CHUNK_SIZE)))
    /\ to_hex_pos(Vec3(0, 0, 0)) = Vec3(0, 0, 0)
    /\ to_hex_pos(Vec3(1, 0, 0)) = Vec3(2, 0, 0)
    /\ to_hex_pos(Vec3(0, 0, 1)) = Vec3(1, 0, 3)

C7_Witness ==
    /\ pc = "caps"
    /\ off_pos.z = 3 /\ off_pos.x = 1 /\ off_pos.y = 2
    /\ grid_pos = Vec3(3, 2, 9)

\* ----------------------------------------------------------------- C8
\* C8: in add_chunk_sides the right branch changes no buffer; for
\* c_x = MAP_SIZE - 1 the whole call changes no buffer; otherwise each row
\* only appends 2 vertices and 1 quad, plus 1 vertex and 1 quad on odd rows.
C8_SeamFrame ==
    [][/\ (pc = "seam_right" => BuffersUnchanged)
       /\ (pc = "seam_top" /\ ~ (c_x < MAP_SIZE - 1) => BuffersUnchanged)
       /\ (pc = "seam_top" /\ c_x < MAP_SIZE - 1 /\ z >= CHUNK_SIZE =>
              BuffersUnchanged)
       /\ (pc = "seam_top" /\ c_x < MAP_SIZE - 1 /\ z < CHUNK_SIZE =>
              LET extra == IF z % 2 = 1 THEN 1 ELSE 0
              IN  /\ Len(verts') = Len(verts) + 2 + extra
                  /\ Len(uvs') = Len(uvs) + 2 + extra
                  /\ Len(normals') = Len(normals) + 2 + extra
                  /\ Len(indices') = Len(indices) + 6 * (1 + extra)
                  /\ IsPrefix(verts, verts')
                  /\ IsPrefix(uvs, uvs')
                  /\ IsPrefix(normals, normals')
                  /\ IsPrefix(indices, indices'))]_vars

C8_Witness ==
    /\ pc = "seam_right" /\ x >= 1
    /\ c_x < MAP_SIZE - 1
    /\ Len(verts) = CapVerts + 2 * CHUNK_SIZE + (CHUNK_SIZE \div 2)
    /\ CHUNK_SIZE >= 2

\* ----------------------------------------------------------------- C9
\* C9: every stitch quad (v1, v2, v3, v4) emitted while building a chunk of
\* even CHUNK_SIZE is vertical: v3 has the world X and Z of v2, and v4 has
\* the world X and Z of v1.
C9_QuadsVertical ==
    [][(pc \in {"sides", "seam_top"} /\ CHUNK_SIZE % 2 = 0) =>
        \A k \in 0..(NumQuads(NewIndices) - 1) :
            LET q == QuadOf(NewIndices, k)
            IN  /\ SameXZ(At(verts', q.v3), At(verts', q.v2))
                /\ SameXZ(At(verts', q.v4), At(verts', q.v1))]_vars

\* ----------------------------------------------------------------- C10
\* C10: for even CHUNK_SIZE, every vertex add_chunk_sides appends for row z
\* sits, in world space, on a corner of a tile of column 0 of chunk
\* (c_x + 1, ...) that is hex-adjacent to tile (CHUNK_SIZE - 1, z), at the
\* height sample_height gives for that tile.
C10_SeamOnNeighbour ==
    [][(pc = "seam_top" /\ CHUNK_SIZE % 2 = 0) =>
        \A k \in (Len(verts) + 1)..Len(verts') :
            LET world == VAdd(pos, verts'[k])
                wx == (CHUNK_SIZE - 1) + c_x * CHUNK_SIZE
                wz == z + c_z * CHUNK_SIZE
                nx == (c_x + 1) * CHUNK_SIZE
            IN  \E nz \in {wz - 1, wz, wz + 1} :
                  /\ nz >= 0
                  /\ HexAdjacent(wx, wz, nx, nz)
                  /\ world.y = sample_height(nx, nz, noise)
                  /\ \E i \in 1..6 :
                        SameXZ(world,
                               VAdd(to_hex_pos(Vec3(nx, 0, nz)), HEX_CORNERS[i]))]_vars

====
